---- MODULE Spec2Model ----
(***************************************************************************)
(* A model of the PDF Ultra Compressor pipeline (src/compressor.py and     *)
(* src/quality_gates.py): PDFCompressor.compress_pdf run on one document.  *)
(*                                                                         *)
(* Units.  File sizes are integers (the unit is arbitrary).  A percentage  *)
(* p is carried as the integer p * original_size, and a score s as the     *)
(* integer s * Scale(original_size), so that the piecewise-linear scoring  *)
(* curve of _select_best_result is computed exactly.  PSNR values are      *)
(* whole dB, SSIM values are hundredths.  An unset (None) metric is        *)
(* NoMetric; an unset sharpness is NoSharp (the code maps 0.0 to None).    *)
(***************************************************************************)
EXTENDS Integers, Sequences, FiniteSets, TLC

VARIABLES
    env,              \* what the external tools can answer for this document
    tools,            \* self.tools: which executables were detected
    opts,             \* the constructor's flags
    original_size,    \* pdf_path.stat().st_size
    pc,               \* position inside compress_pdf
    step,             \* index in GenOrder of the next strategy block
    content_profile,  \* self._content_profile (its mode, or "none")
    use_anti_noise,   \* local use_anti_noise of compress_pdf
    candidates,       \* local candidates: sequence of [method, size]
    tmp_files,        \* strategies whose temporary file is on disk
    scores,           \* the score computed for each candidate, in order
    selected,         \* what _select_best_result returned
    best,             \* local best after the quality gate
    gate_log,         \* the gate's evaluations, in order
    output,           \* the file at the output path
    copies,           \* number of shutil.copy2 calls onto the output path
    result,           \* the record compress_pdf returns
    telemetry,        \* the telemetry collaborator: its mode, doc_id, records
    attempted,        \* the strategies compress_pdf has called
    probe             \* inputs and outputs of a function applied on its own

vars == <<env, tools, opts, original_size, pc, step, content_profile,
          use_anti_noise, candidates, tmp_files, scores, selected, best,
          gate_log, output, copies, result, telemetry, attempted, probe>>

----------------------------------------------------------------------------
(* Bounds of the model *)

\* at most this many encoding attempts succeed for one document
MaxCands == 3
\* at most this many failed attempts leave their temporary file behind
MaxOrphans == 1
\* a function applied on its own is applied at most this many times
MaxRuns == 2
\* at most this many PDF files are in the input directory
MaxDocs == 3
\* sample pages rasterized by the content profiler
MaxPages == 3

----------------------------------------------------------------------------
(* Program constants *)

NoMetric == -1
NoSharp == 0

\* _apply_psnr_quality_gate thresholds
DefaultThresholdDb == 35
GrayscaleThresholdDb == 33
BitonalThresholdDb == 30
\* QualityGateConfig defaults
ConfigPsnrThreshold == 35
ConfigSsimThreshold == 85
\* score floor of a candidate that passed the gate, score of a fallback
PassedScore == 95
AlternativeScore == 96
NoChangeScore == 100

\* the strategy blocks of compress_pdf in source order
GenOrder == <<"conservative", "high_quality", "balanced",
              "text_preserve", "grayscale_pref", "denoise_raster",
              "color_text_safe", "bitonal_ccitt", "mrc_ocr",
              "advanced_raster", "mrc_light_raster", "aggressive_safe">>

Strategies == {GenOrder[i] : i \in 1..Len(GenOrder)}

RasterPipelines == {"advanced_raster", "mrc_light_raster"}

\* the fallbacks of the quality gate, in the order the loops try them
\* the fallbacks tried in the opposite order
AlternativesConservativeFirst == <<"conservative", "high_quality">>

Alternatives == <<"high_quality", "conservative">>

Modes == {"color", "grayscale", "bitonal"}

----------------------------------------------------------------------------
(* Values *)

NoBest == [method |-> "none", size |-> 0, score |-> 0, reduction |-> 0,
           psnr_db |-> NoMetric, ssim |-> NoMetric]

NoOutput == [src |-> "none", size |-> 0]

NoResult == [kind |-> "none", winner_method |-> "none", final_size |-> 0,
             reduction_percent |-> 0, quality_score |-> 0,
             psnr_db |-> NoMetric, ssim |-> NoMetric]

ErrorResult == [NoResult EXCEPT !.kind = "error"]

\* The telemetry collaborator.  mode says how it behaves: disabled by the
\* flag, absent (the import failed), enabled, or enabled with one of its two
\* calls raising.
TelemetryModes ==
    {"disabled", "absent", "enabled", "analyze_raises", "record_raises"}

NoTelemetry == [mode |-> "disabled", doc_id |-> "none", records |-> <<>>]

\* "self.enable_telemetry and self.telemetry is not None"
TelemetryActive(t) == t.mode \in {"enabled", "analyze_raises", "record_raises"}

\* doc_id after the guarded call of analyze_document
AnalyzeDocument(t) ==
    IF TelemetryActive(t) /\ t.mode # "analyze_raises" THEN "doc" ELSE "none"

\* the records on disk after the guarded call of record_compression_result
\* for a record of that kind
RecordResult(t, kind) ==
    IF TelemetryActive(t) /\ t.doc_id # "none" /\ t.mode # "record_raises"
    THEN Append(t.records, kind)
    ELSE t.records

\* a telemetry error that replaces the record with the error record
ReturnAfterTelemetryUnguarded(t, res) ==
    IF TelemetryActive(t) /\ t.doc_id # "none" /\ t.mode = "record_raises"
    THEN ErrorResult
    ELSE res

\* what compress_pdf returns after the telemetry block: the record it built
ReturnAfterTelemetry(t, res) == res

Max(a, b) == IF a >= b THEN a ELSE b
Min(a, b) == IF a <= b THEN a ELSE b

Methods(cands) == {cands[i].method : i \in 1..Len(cands)}

\* next((p for m, p in candidates if m == alt and p.exists()), None):
\* the index of the first candidate of that name, 0 when there is none
FirstIndex(cands, m) ==
    IF m \in Methods(cands)
    THEN CHOOSE i \in 1..Len(cands) :
            /\ cands[i].method = m
            /\ \A j \in 1..(i - 1) : cands[j].method # m
    ELSE 0

----------------------------------------------------------------------------
(* Candidate generation policy: the conditions guarding each strategy     *)
(* block of compress_pdf.                                                  *)

Applicable(m, tl, op, prof, anti) ==
    CASE m = "conservative" -> tl.qpdf
      [] m \in {"high_quality", "balanced", "aggressive_safe"} -> tl.gs
      [] m \in {"text_preserve", "grayscale_pref", "denoise_raster"} ->
            anti /\ tl.gs
      [] m = "color_text_safe" -> tl.gs /\ prof = "color"
      [] m = "bitonal_ccitt" -> tl.gs /\ prof = "bitonal"
      [] m = "mrc_ocr" ->
            tl.ocrmypdf /\ prof \in {"none", "grayscale", "bitonal"}
      [] m \in RasterPipelines -> op.enable_advanced_raster
      [] OTHER -> FALSE

\* the first strategy block at or after position i whose guard holds;
\* Len(GenOrder) + 1 when none is left
RECURSIVE NextApplicable(_, _, _, _, _)
NextApplicable(i, tl, op, prof, anti) ==
    IF i > Len(GenOrder) THEN i
    ELSE IF Applicable(GenOrder[i], tl, op, prof, anti) THEN i
    ELSE NextApplicable(i + 1, tl, op, prof, anti)

\* The pixel pipelines rasterize with self.tools["gs"]; without it the
\* rasterization call fails inside its own try and the strategy returns None.
CanProduce(m, tl) == m \in RasterPipelines => tl.gs

\* _advanced_raster and _mrc_light_raster process the pages outside any
\* try block: an error of the imaging library there leaves the strategy.
CanRaise(m, tl) == m \in RasterPipelines /\ tl.gs

----------------------------------------------------------------------------
(* Scoring (_select_best_result).  Scores are carried multiplied by        *)
(* Scale(orig); reductions are percentages multiplied by orig.             *)

Scale(orig) == 18 * orig

\* reduction = ((original_size - size) / original_size) * 100, times orig
Reduction(orig, size) == IF orig > 0 THEN (orig - size) * 100 ELSE 0

\* a curve that keeps rising beyond 50% instead of falling
CurveScoreRising(orig, size) ==
    LET R == Reduction(orig, size) IN
    IF R < 5 * orig THEN 70 * Scale(orig) + 18 * R
    ELSE 80 * Scale(orig) + 8 * (R - 5 * orig)

\* the piecewise reduction curve
CurveScore(orig, size) ==
    LET R == Reduction(orig, size) IN
    IF R < 5 * orig THEN 70 * Scale(orig) + 18 * R
    ELSE IF R <= 50 * orig THEN 80 * Scale(orig) + 8 * (R - 5 * orig)
    ELSE IF R <= 80 * orig THEN 95 * Scale(orig) - 9 * (R - 50 * orig)
    ELSE 60 * Scale(orig) - 18 * (R - 80 * orig)

\* priors given to the wrong strategies
StrategyPriorSwapped(m, orig) ==
    IF m = "conservative" THEN 8 * Scale(orig)
    ELSE IF m = "high_quality" THEN 10 * Scale(orig)
    ELSE IF m = "balanced" THEN 5 * Scale(orig)
    ELSE 0

\* the strategy prior added to the curve
StrategyPrior(m, orig) ==
    IF m = "conservative" THEN 10 * Scale(orig)
    ELSE IF m = "high_quality" THEN 8 * Scale(orig)
    ELSE IF m = "balanced" THEN 5 * Scale(orig)
    ELSE 0

\* if reduction < 0: score = 0
NegativeReset(sc, orig, size) == IF Reduction(orig, size) < 0 THEN 0 ELSE sc

\* the sharpness penalty and, with prefer_sharpness, the sharpness reward.
\* The divisions are exact for the sharpness values of the environments
\* below; the 1e-6 added to the divisor in the code is below the score's
\* resolution.
SharpnessAdjust(sc, orig, base, cand, prefer) ==
    IF base = NoSharp \/ cand = NoSharp THEN sc
    ELSE
      LET drop    == Max(0, base - cand)
          penalty == Min(20 * Scale(orig), (drop * 40 * Scale(orig)) \div base)
          gain    == IF prefer /\ cand > base
                     THEN Min(10 * Scale(orig),
                              ((cand - base) * 20 * Scale(orig)) \div base)
                     ELSE 0
      IN  sc - penalty + gain

\* the content-aware boost for grayscale and bitonal documents
ContentBonus(m, orig, prof) ==
    IF /\ prof \in {"grayscale", "bitonal"}
       /\ m \in {"text_preserve", "grayscale_pref", "conservative",
                 "bitonal_ccitt"}
    THEN 6 * Scale(orig)
    ELSE 0

\* the 2.5 points given to the pixel pipelines when they are enabled
RasterBonus(m, orig, op) ==
    IF op.enable_advanced_raster /\ m \in RasterPipelines
    THEN (5 * Scale(orig)) \div 2
    ELSE 0

\* the score of one candidate, in the order the loop body computes it
Score(m, size, orig, base, cand, prof, op) ==
    LET s1 == CurveScore(orig, size) + StrategyPrior(m, orig)
        s2 == NegativeReset(s1, orig, size)
        s3 == SharpnessAdjust(s2, orig, base, cand, op.prefer_sharpness)
    IN  s3 + ContentBonus(m, orig, prof) + RasterBonus(m, orig, op)

\* a best_score kept from the previous run instead of being reset
InitialBestScoreCarried(orig) ==
    IF probe.kind = "select" /\ probe.runs # <<>>
    THEN probe.runs[Len(probe.runs)].selected.score
    ELSE -1 * Scale(orig)

\* best_score = -1.0 before the loop
InitialBestScore(orig) == -1 * Scale(orig)

\* a loop in which a later candidate with an equal score replaces the best
RECURSIVE SelectFromLastWins(_, _, _, _)
SelectFromLastWins(sc, i, bestIdx, bestScore) ==
    IF i > Len(sc) THEN bestIdx
    ELSE IF sc[i] >= bestScore
         THEN SelectFromLastWins(sc, i + 1, i, sc[i])
         ELSE SelectFromLastWins(sc, i + 1, bestIdx, bestScore)

\* the loop "if score > best_score": the index of the winner among sc[i..],
\* given the best so far; 0 when nothing ever beat the initial best_score
RECURSIVE SelectFrom(_, _, _, _)
SelectFrom(sc, i, bestIdx, bestScore) ==
    IF i > Len(sc) THEN bestIdx
    ELSE IF sc[i] > bestScore
         THEN SelectFrom(sc, i + 1, i, sc[i])
         ELSE SelectFrom(sc, i + 1, bestIdx, bestScore)

\* what _select_best_result returns for candidates scored sc
SelectBestResult(cands, sc, orig) ==
    LET k == SelectFrom(sc, 1, 0, InitialBestScore(orig)) IN
    IF k = 0 THEN NoBest
    ELSE [method |-> cands[k].method, size |-> cands[k].size,
          score |-> sc[k], reduction |-> Reduction(orig, cands[k].size),
          psnr_db |-> NoMetric, ssim |-> NoMetric]

----------------------------------------------------------------------------
(* The start of compress_pdf: content detection *)

\* _detect_content_profile returns None without Ghostscript, and otherwise
\* None or one of the three modes
ProfileOutcomes(tl, e) == IF tl.gs THEN {"none"} \cup e.modes ELSE {"none"}

DetectProfile ==
    /\ pc = "start"
    /\ \E prof \in ProfileOutcomes(tools, env) :
         LET anti == opts.enable_anti_noise
                       \/ prof \in {"grayscale", "bitonal"}
             nxt  == NextApplicable(1, tools, opts, prof, anti)
         IN  /\ content_profile' = prof
             /\ use_anti_noise' = anti
             /\ step' = nxt
             /\ pc' = IF nxt > Len(GenOrder) THEN "select" ELSE "generate"
    /\ telemetry' = [telemetry EXCEPT !.doc_id = AnalyzeDocument(telemetry)]
    /\ UNCHANGED <<probe, attempted, env, tools, opts, original_size, candidates, tmp_files,
                   scores, selected, best, gate_log, output, copies, result>>

----------------------------------------------------------------------------
(* Candidate generation: one strategy call and the append that follows it *)

Advance(i) ==
    LET nxt == NextApplicable(i + 1, tools, opts, content_profile,
                              use_anti_noise)
    IN  /\ step' = nxt
        /\ pc' = IF nxt > Len(GenOrder) THEN "select" ELSE "generate"

Orphans(files, cands) == files \ Methods(cands)

\* the tool exits 0 and its output file exists: the strategy returns the
\* temporary file and compress_pdf appends (name, file)
StrategySucceeds ==
    /\ pc = "generate"
    /\ CanProduce(GenOrder[step], tools)
    /\ Len(candidates) < MaxCands
    /\ \E sz \in env.sizes[GenOrder[step]] :
         /\ candidates' = Append(candidates,
                                 [method |-> GenOrder[step], size |-> sz])
         /\ tmp_files' = tmp_files \cup {GenOrder[step]}
    /\ attempted' = attempted \cup {GenOrder[step]}
    /\ Advance(step)
    /\ UNCHANGED <<probe, telemetry, env, tools, opts, original_size, content_profile,
                   use_anti_noise, scores, selected, best, gate_log, output,
                   copies, result>>

\* nonzero exit, missing output, timeout or a caught error: the strategy
\* returns None.  The temporary file may already have been written
\* (leftover = TRUE): nothing in the strategy removes it.
StrategyFails ==
    /\ pc = "generate"
    /\ \E leftover \in BOOLEAN :
         /\ leftover => /\ CanProduce(GenOrder[step], tools)
                        /\ GenOrder[step] \in env.leaky
                        /\ Cardinality(Orphans(tmp_files, candidates))
                             < MaxOrphans
         /\ tmp_files' = IF leftover THEN tmp_files \cup {GenOrder[step]}
                         ELSE tmp_files
    /\ attempted' = attempted \cup {GenOrder[step]}
    /\ Advance(step)
    /\ UNCHANGED <<probe, telemetry, env, tools, opts, original_size, content_profile,
                   use_anti_noise, candidates, scores, selected, best,
                   gate_log, output, copies, result>>

\* an error raised inside a pixel pipeline reaches compress_pdf's
\* "except Exception": the error record is returned at once
StrategyRaises ==
    /\ pc = "generate"
    /\ CanRaise(GenOrder[step], tools)
    /\ attempted' = attempted \cup {GenOrder[step]}
    /\ result' = ReturnAfterTelemetry(telemetry, ErrorResult)
    /\ telemetry' = [telemetry EXCEPT
                        !.records = RecordResult(telemetry, "error")]
    /\ pc' = "done"
    /\ UNCHANGED <<probe, env, tools, opts, original_size, step, content_profile,
                   use_anti_noise, candidates, tmp_files, scores, selected,
                   best, gate_log, output, copies>>

----------------------------------------------------------------------------
(* Selection *)

SharpDomain(tl, vals) == IF tl.gs THEN vals ELSE {NoSharp}

SelectBest ==
    /\ pc = "select"
    /\ \E base \in SharpDomain(tools, env.base_sharps) :
       \E cs \in [1..Len(candidates) -> SharpDomain(tools, env.cand_sharps)] :
         LET sc == [i \in 1..Len(candidates) |->
                      Score(candidates[i].method, candidates[i].size,
                            original_size, base, cs[i], content_profile,
                            opts)]
             b  == SelectBestResult(candidates, sc, original_size)
         IN  /\ scores' = sc
             /\ selected' = b
             /\ best' = b
    /\ pc' = "gate"
    /\ UNCHANGED <<probe, attempted, telemetry, env, tools, opts, original_size, step, content_profile,
                   use_anti_noise, candidates, tmp_files, gate_log, output,
                   copies, result>>

----------------------------------------------------------------------------
(* The PSNR-only gate (_apply_psnr_quality_gate).  q gives, for each       *)
(* candidate file, what _compute_average_psnr answers for it.              *)

\* one threshold for every content profile
PsnrThresholdFixed(prof) == DefaultThresholdDb

\* the content-aware threshold
PsnrThreshold(prof) ==
    IF prof = "bitonal" THEN BitonalThresholdDb
    ELSE IF prof = "grayscale" THEN GrayscaleThresholdDb
    ELSE DefaultThresholdDb

\* a pass test with the comparison the wrong way round
SelectedPassesPsnrBelow(p, t) == p = NoMetric \/ p <= t

\* the test applied to the selected candidate: an unset PSNR returns best
SelectedPassesPsnr(p, t) == p = NoMetric \/ p >= t

\* a fallback test that accepts any fallback whose PSNR could be measured
AlternativePassesPsnrAnyMeasured(p, t) == p # NoMetric

\* the test applied to a fallback: "alt_psnr is not None and alt_psnr >= T"
AlternativePassesPsnr(p, t) == p # NoMetric /\ p >= t

\* one evaluation of the gate: the file, whether any metric could be
\* measured for it, and the gate's verdict
LogEntry(m, p, s, ok) ==
    [method |-> m, measured |-> (p # NoMetric \/ s # NoMetric), passed |-> ok]

\* the dict built for a fallback that passed
AlternativeResult(m, size, orig, p, s) ==
    [method |-> m, size |-> size, score |-> AlternativeScore * Scale(orig),
     reduction |-> 0, psnr_db |-> p, ssim |-> s]

\* best["score"] = max(best.get("score", 0.0), 95.0) and the metrics added
PassedResult(b, orig, p, s) ==
    [b EXCEPT !.score = Max(b.score, PassedScore * Scale(orig)),
              !.psnr_db = p, !.ssim = s]

\* the loop over the fallbacks from position i on
RECURSIVE PsnrAlternatives(_, _, _, _, _, _)
PsnrAlternatives(i, cands, t, orig, q, log) ==
    IF i > Len(Alternatives) THEN [best |-> NoBest, log |-> log]
    ELSE
      LET alt == Alternatives[i]
          k   == FirstIndex(cands, alt)
      IN  IF k = 0 THEN PsnrAlternatives(i + 1, cands, t, orig, q, log)
          ELSE
            LET ok == AlternativePassesPsnr(q[alt], t)
                lg == Append(log, LogEntry(alt, q[alt], NoMetric, ok))
            IN  IF ok
                THEN [best |-> AlternativeResult(alt, cands[k].size, orig,
                                                 q[alt], NoMetric),
                      log |-> lg]
                ELSE PsnrAlternatives(i + 1, cands, t, orig, q, lg)

\* a gate that keeps the rejected candidate when no fallback is accepted
ApplyPsnrQualityGateKeepsRejected(cands, b, prof, orig, q) ==
    IF b = NoBest THEN [best |-> NoBest, log |-> <<>>]
    ELSE
      LET t  == PsnrThreshold(prof)
          p  == q[b.method]
          ok == SelectedPassesPsnr(p, t)
          lg == <<LogEntry(b.method, p, NoMetric, ok)>>
          r  == PsnrAlternatives(1, cands, t, orig, q, lg)
      IN  IF p = NoMetric THEN [best |-> b, log |-> lg]
          ELSE IF ok THEN [best |-> PassedResult(b, orig, p, NoMetric),
                           log |-> lg]
          ELSE IF r.best = NoBest THEN [best |-> b, log |-> r.log]
          ELSE r

ApplyPsnrQualityGate(cands, b, prof, orig, q) ==
    IF b = NoBest THEN [best |-> NoBest, log |-> <<>>]
    ELSE
      LET t  == PsnrThreshold(prof)
          p  == q[b.method]
          ok == SelectedPassesPsnr(p, t)
          lg == <<LogEntry(b.method, p, NoMetric, ok)>>
      IN  IF p = NoMetric THEN [best |-> b, log |-> lg]
          ELSE IF ok THEN [best |-> PassedResult(b, orig, p, NoMetric),
                           log |-> lg]
          ELSE PsnrAlternatives(1, cands, t, orig, q, lg)

----------------------------------------------------------------------------
(* The advanced gate (_apply_advanced_quality_gates, _try_safer_           *)
(* alternatives and QualityGateChecker.evaluate_quality).  q gives, for    *)
(* each candidate file, the averaged metrics [psnr, ssim, lpips].          *)

\* QualityGateConfig.__init__
DefaultConfig ==
    [psnr_threshold |-> ConfigPsnrThreshold,
     ssim_threshold |-> ConfigSsimThreshold,
     lpips_threshold |-> 15,
     fail_on_any_gate |-> FALSE,
     require_majority |-> TRUE]

Count(b) == IF b THEN 1 ELSE 0

\* a majority rule that half of the gates satisfies
EvaluateOverallResultHalf(passed, total, cfg) ==
    IF total = 0 THEN TRUE
    ELSE IF cfg.fail_on_any_gate THEN passed = total
    ELSE IF cfg.require_majority THEN 2 * passed >= total
    ELSE passed > 0

\* _evaluate_overall_result on the counts of gates evaluated and passed
EvaluateOverallResult(passed, total, cfg) ==
    IF total = 0 THEN TRUE
    ELSE IF cfg.fail_on_any_gate THEN passed = total
    ELSE IF cfg.require_majority THEN 2 * passed > total
    ELSE passed > 0

\* evaluate_quality from the averaged metrics on: a metric that is unset
\* is not evaluated; with no metric at all (rasterization failed, or every
\* page comparison failed) the answer is True
EvaluateQuality(m, cfg) ==
    LET total  == Count(m.psnr # NoMetric) + Count(m.ssim # NoMetric)
                    + Count(m.lpips # NoMetric)
        passed == Count(m.psnr # NoMetric /\ m.psnr >= cfg.psnr_threshold)
                    + Count(m.ssim # NoMetric /\ m.ssim >= cfg.ssim_threshold)
                    + Count(m.lpips # NoMetric
                              /\ m.lpips <= cfg.lpips_threshold)
    IN  EvaluateOverallResult(passed, total, cfg)

\* _try_safer_alternatives from position i on
RECURSIVE TrySaferAlternatives(_, _, _, _, _, _)
TrySaferAlternatives(i, cands, cfg, orig, q, log) ==
    IF i > Len(Alternatives) THEN [best |-> NoBest, log |-> log]
    ELSE
      LET alt == Alternatives[i]
          k   == FirstIndex(cands, alt)
      IN  IF k = 0 THEN TrySaferAlternatives(i + 1, cands, cfg, orig, q, log)
          ELSE
            LET ok == EvaluateQuality(q[alt], cfg)
                lg == Append(log, LogEntry(alt, q[alt].psnr, q[alt].ssim, ok))
            IN  IF ok
                THEN [best |-> AlternativeResult(alt, cands[k].size, orig,
                                                 q[alt].psnr, q[alt].ssim),
                      log |-> lg]
                ELSE TrySaferAlternatives(i + 1, cands, cfg, orig, q, lg)

ApplyAdvancedQualityGates(cands, b, cfg, orig, q) ==
    IF b = NoBest THEN [best |-> NoBest, log |-> <<>>]
    ELSE
      LET m  == q[b.method]
          ok == EvaluateQuality(m, cfg)
          lg == <<LogEntry(b.method, m.psnr, m.ssim, ok)>>
      IN  IF ok THEN [best |-> PassedResult(b, orig, m.psnr, m.ssim),
                      log |-> lg]
          ELSE TrySaferAlternatives(1, cands, cfg, orig, q, lg)

----------------------------------------------------------------------------
(* The gate step of compress_pdf *)

\* the files a gate may rasterize: the selected one and the fallbacks
Gated(cands, b) ==
    IF b = NoBest THEN {}
    ELSE {b.method} \cup ({Alternatives[i] : i \in 1..Len(Alternatives)}
                            \cap Methods(cands))

\* _compute_average_psnr returns None without Ghostscript
PsnrDomain(tl, e) == IF tl.gs THEN e.psnrs ELSE {NoMetric}

\* QualityGateChecker._rasterize_pdf runs "gs" from the PATH: without
\* Ghostscript nothing is rasterized and no metric is set
MetricsDomain(tl, e) ==
    IF tl.gs
    THEN [psnr : e.psnrs, ssim : e.ssims, lpips : {NoMetric}]
    ELSE {[psnr |-> NoMetric, ssim |-> NoMetric, lpips |-> NoMetric]}

\* The end of compress_pdf for the gate's answer b: the copy to the output
\* path, the result record and the cleanup loop
\* a result record that names the candidate the selection chose
SuccessResultNamesSelected(b, orig) ==
    [kind |-> "ok",
     winner_method |-> IF selected # NoBest THEN selected.method ELSE b.method,
     final_size |-> b.size,
     reduction_percent |-> Reduction(orig, b.size),
     quality_score |-> b.score, psnr_db |-> b.psnr_db, ssim |-> b.ssim]

\* the result of the "if best:" branch
SuccessResult(b, orig) ==
    [kind |-> "ok", winner_method |-> b.method, final_size |-> b.size,
     reduction_percent |-> Reduction(orig, b.size),
     quality_score |-> b.score, psnr_db |-> b.psnr_db, ssim |-> b.ssim]

\* the result of the "else:" branch (preserve the original)
NoChangeResult(orig) ==
    [kind |-> "ok", winner_method |-> "no_change", final_size |-> orig,
     reduction_percent |-> 0, quality_score |-> NoChangeScore * Scale(orig),
     psnr_db |-> NoMetric, ssim |-> NoMetric]

\* a copy step that writes nothing when there is no winner
CopiedFileOnlyWinner(b, orig) ==
    IF b # NoBest THEN [src |-> b.method, size |-> b.size]
    ELSE NoOutput

\* what shutil.copy2 puts at the output path
CopiedFile(b, orig) ==
    IF b # NoBest THEN [src |-> b.method, size |-> b.size]
    ELSE [src |-> "original", size |-> orig]

\* "for method, temp in candidates: temp.unlink()"
Cleanup(files, cands) == files \ Methods(cands)

Finalize(b) ==
    /\ output' = CopiedFile(b, original_size)
    /\ copies' = copies + 1
    /\ result' = ReturnAfterTelemetry(
                    telemetry,
                    IF b # NoBest THEN SuccessResult(b, original_size)
                    ELSE NoChangeResult(original_size))
    /\ telemetry' = [telemetry EXCEPT
                        !.records = RecordResult(telemetry, "ok")]
    /\ tmp_files' = Cleanup(tmp_files, candidates)
    /\ pc' = "done"

\* lines 261-323 with the PSNR-only gate
PsnrGate ==
    /\ pc = "gate"
    /\ ~opts.enable_advanced_gates
    /\ \E q \in [Gated(candidates, best) -> PsnrDomain(tools, env)] :
         LET g == ApplyPsnrQualityGate(candidates, best, content_profile,
                                       original_size, q)
         IN  /\ best' = g.best
             /\ gate_log' = g.log
             /\ Finalize(g.best)
    /\ UNCHANGED <<probe, attempted, env, tools, opts, original_size, step, content_profile,
                   use_anti_noise, candidates, scores, selected>>

\* lines 261-323 with the advanced gate
AdvancedGate ==
    /\ pc = "gate"
    /\ opts.enable_advanced_gates
    /\ \E q \in [Gated(candidates, best) -> MetricsDomain(tools, env)] :
         LET g == ApplyAdvancedQualityGates(candidates, best, DefaultConfig,
                                            original_size, q)
         IN  /\ best' = g.best
             /\ gate_log' = g.log
             /\ Finalize(g.best)
    /\ UNCHANGED <<probe, attempted, env, tools, opts, original_size, step, content_profile,
                   use_anti_noise, candidates, scores, selected>>

\* QualityGateChecker._rasterize_pdf runs Ghostscript through
\* subprocess.run without a timeout: a Ghostscript process that never exits
\* keeps evaluate_quality, and with it compress_pdf, waiting for ever.  Every
\* other external call has a timeout and ends as a failure of that call.
AdvancedGateHangs ==
    /\ pc = "gate"
    /\ opts.enable_advanced_gates
    /\ best # NoBest
    /\ tools.gs
    /\ pc' = "blocked"
    /\ UNCHANGED <<probe, attempted, telemetry, env, tools, opts, original_size, step,
                   content_profile, use_anti_noise, candidates, tmp_files,
                   scores, selected, best, gate_log, output, copies, result>>

----------------
(* Environments and specifications *)

ToolSets == [gs : BOOLEAN, qpdf : BOOLEAN, ocrmypdf : BOOLEAN]

OptSets == [enable_advanced_gates : BOOLEAN, enable_anti_noise : BOOLEAN,
            enable_advanced_raster : BOOLEAN, prefer_sharpness : BOOLEAN]

\* An original of 100 units.  The lossless profile may give 96% or 110% of
\* it, the high-fidelity one 10%, 96% or 110%, the balanced one 20% or 96%,
\* every other profile 20%.
GateSizes ==
    [m \in Strategies |->
        IF m = "conservative" THEN {96, 110}
        ELSE IF m = "high_quality" THEN {10, 96, 110}
        ELSE IF m = "balanced" THEN {20, 96}
        ELSE {20}]

GateEnv ==
    [originals |-> {100},
     sizes |-> GateSizes,
     modes |-> {"color"},
     psnrs |-> {NoMetric, 29, 35},
     ssims |-> {NoMetric, 80, 90},
     base_sharps |-> {NoSharp, 4},
     cand_sharps |-> {2},
     leaky |-> {"high_quality", "advanced_raster"}]

\* no function is being applied on its own
NoProbe == [kind |-> "none"]

InitWith(envs, toolsets, optsets, tmodes) ==
    /\ env \in envs
    /\ tools \in toolsets
    /\ opts \in optsets
    /\ original_size \in env.originals
    /\ pc = "start"
    /\ step = 1
    /\ content_profile = "none"
    /\ use_anti_noise = FALSE
    /\ candidates = <<>>
    /\ tmp_files = {}
    /\ scores = <<>>
    /\ selected = NoBest
    /\ best = NoBest
    /\ gate_log = <<>>
    /\ output = NoOutput
    /\ copies = 0
    /\ result = NoResult
    /\ telemetry \in {[NoTelemetry EXCEPT !.mode = m] : m \in tmodes}
    /\ attempted = {}
    /\ probe = NoProbe

\* the flag combinations of the default specification: either gate, the
\* pixel pipelines on or off
GateOpts ==
    [enable_advanced_gates : BOOLEAN, enable_anti_noise : {FALSE},
     enable_advanced_raster : BOOLEAN, prefer_sharpness : {FALSE}]

Init == InitWith({GateEnv}, ToolSets, GateOpts, {"disabled"})

Next ==
    \/ DetectProfile
    \/ StrategySucceeds
    \/ StrategyFails
    \/ StrategyRaises
    \/ SelectBest
    \/ PsnrGate
    \/ AdvancedGate
    \/ AdvancedGateHangs

Spec == Init /\ [][Next]_vars

\* A document whose strategies each have one possible size, and no leftover
\* files: the environment of the runs that vary the telemetry collaborator
\* and of the runs checked for termination.
SmallEnv ==
    [originals |-> {100},
     sizes |-> [m \in Strategies |->
                  IF m = "conservative" THEN {96}
                  ELSE IF m = "high_quality" THEN {60}
                  ELSE {20}],
     modes |-> {"color"},
     psnrs |-> {NoMetric, 29, 35},
     ssims |-> {NoMetric, 90},
     base_sharps |-> {NoSharp},
     cand_sharps |-> {2},
     leaky |-> {}]

SmallTools == [gs : BOOLEAN, qpdf : {TRUE}, ocrmypdf : {FALSE}]

TelemetryInit == InitWith({SmallEnv}, SmallTools, GateOpts, TelemetryModes)

TelemetrySpec == TelemetryInit /\ [][Next]_vars

\* A document of any content mode whose strategies all give 20 of 100 units
\* and for which nothing can be measured: the environment of the runs that
\* vary the tools, the content mode and the flags.
PolicyEnv ==
    [originals |-> {100},
     sizes |-> [m \in Strategies |-> {20}],
     modes |-> Modes,
     psnrs |-> {NoMetric},
     ssims |-> {NoMetric},
     base_sharps |-> {NoSharp},
     cand_sharps |-> {NoSharp},
     leaky |-> {}]

PolicyOpts ==
    [enable_advanced_gates : BOOLEAN, enable_anti_noise : BOOLEAN,
     enable_advanced_raster : BOOLEAN, prefer_sharpness : {FALSE}]

PolicyInit == InitWith({PolicyEnv}, ToolSets, PolicyOpts, {"disabled"})

PolicySpec == PolicyInit /\ [][Next]_vars

\* compress_pdf runs in one thread that keeps going while it can
LiveInit == InitWith({SmallEnv}, SmallTools, GateOpts, {"enabled"})

LiveSpec == LiveInit /\ [][Next]_vars /\ WF_vars(Next)

----------------------------------------------------------------------------
(* _select_best_result applied on its own, MaxRuns times, to one candidate *)
(* list with the same measurements.                                        *)

\* the state of the pipeline's variables while a function is applied alone
IdlePipeline ==
    /\ env = GateEnv
    /\ tools = [gs |-> TRUE, qpdf |-> TRUE, ocrmypdf |-> FALSE]
    /\ opts = [enable_advanced_gates |-> FALSE, enable_anti_noise |-> FALSE,
               enable_advanced_raster |-> FALSE, prefer_sharpness |-> FALSE]
    /\ original_size = 100
    /\ pc = "idle"
    /\ step = 1
    /\ content_profile = "none"
    /\ use_anti_noise = FALSE
    /\ candidates = <<>>
    /\ tmp_files = {}
    /\ scores = <<>>
    /\ selected = NoBest
    /\ best = NoBest
    /\ gate_log = <<>>
    /\ output = NoOutput
    /\ copies = 0
    /\ result = NoResult
    /\ telemetry = NoTelemetry
    /\ attempted = {}

pipeline_vars ==
    <<env, tools, opts, original_size, pc, step, content_profile,
      use_anti_noise, candidates, tmp_files, scores, selected, best,
      gate_log, output, copies, result, telemetry, attempted>>

\* the candidate files of the selection runs: for each strategy the sizes
\* its file may have, 0 meaning that the strategy gave no file.  An original
\* of 100 units: reductions of -10, 0, 4, 5 and 85% (conservative), 40, 50 and
\* 85% (high_quality), 51, 60 and 80% (balanced), 40, 81, 85 and 90%
\* (aggressive_safe).
SelectOrder == <<"conservative", "high_quality", "balanced", "aggressive_safe">>

SelectSizes ==
    [m \in {SelectOrder[i] : i \in 1..Len(SelectOrder)} |->
        IF m = "conservative" THEN {0, 95, 96, 100, 110, 15}
        ELSE IF m = "high_quality" THEN {0, 60, 50, 15}
        ELSE IF m = "balanced" THEN {0, 40, 20, 49}
        ELSE {0, 60, 19, 15, 10}]

\* the list compress_pdf builds from the files that exist, in source order
RECURSIVE CandidateList(_, _)
CandidateList(pick, i) ==
    IF i > Len(SelectOrder) THEN <<>>
    ELSE (IF pick[SelectOrder[i]] = 0 THEN <<>>
          ELSE <<[method |-> SelectOrder[i], size |-> pick[SelectOrder[i]]]>>)
         \o CandidateList(pick, i + 1)

SelectInit ==
    /\ IdlePipeline
    /\ \E pick \in [DOMAIN SelectSizes -> UNION {SelectSizes[m] :
                                                   m \in DOMAIN SelectSizes}] :
       \E base \in {NoSharp, 4}, cand \in {NoSharp, 2},
          prof \in {"none"} \cup Modes, prefer \in BOOLEAN,
          disk \in {100, 120} :
         /\ \A m \in DOMAIN SelectSizes : pick[m] \in SelectSizes[m]
         /\ probe = [kind |-> "select",
                     orig |-> 100,
                     disk |-> disk,
                     cands |-> CandidateList(pick, 1),
                     base |-> base,
                     cand |-> cand,
                     prof |-> prof,
                     op |-> [enable_advanced_raster |-> FALSE,
                             prefer_sharpness |-> prefer],
                     runs |-> <<>>]

\* an original size measured again for every candidate after the first
OriginalSizeRemeasured(i, snapshot, disk) ==
    IF i = 1 THEN snapshot ELSE disk

\* the original size the loop uses for candidate i: original_size, read by
\* original.stat() before the loop, whatever the file's size is by then
OriginalSizeAt(i, snapshot, disk) == snapshot

\* one call of _select_best_result(original, candidates); probe.disk is the
\* size of the original file on disk once the loop has started
SelectRun ==
    /\ probe.kind = "select"
    /\ Len(probe.runs) < MaxRuns
    /\ LET sc == [i \in 1..Len(probe.cands) |->
                    Score(probe.cands[i].method, probe.cands[i].size,
                          OriginalSizeAt(i, probe.orig, probe.disk),
                          probe.base, probe.cand, probe.prof, probe.op)]
       IN  probe' = [probe EXCEPT !.runs =
                       Append(@, [scores |-> sc,
                                  selected |-> SelectBestResult(
                                                 probe.cands, sc,
                                                 probe.orig)])]
    /\ UNCHANGED pipeline_vars

SelectNext == SelectRun

SelectSpec == SelectInit /\ [][SelectNext]_vars

----------------------------------------------------------------------------
(* The two gates applied on their own to one selected candidate that has   *)
(* no fallback, and their pass tests applied at two thresholds.            *)

\* the selected candidate of the gate runs: balanced at 20 of 100 units
GateCandidate == [method |-> "balanced", size |-> 20]

GateBest ==
    [method |-> GateCandidate.method, size |-> GateCandidate.size,
     score |-> Score(GateCandidate.method, GateCandidate.size, 100, NoSharp,
                     NoSharp, "none",
                     [enable_advanced_raster |-> FALSE,
                      prefer_sharpness |-> FALSE]),
     reduction |-> Reduction(100, GateCandidate.size),
     psnr_db |-> NoMetric, ssim |-> NoMetric]

\* the thresholds the program uses
Thresholds == {BitonalThresholdDb, GrayscaleThresholdDb, DefaultThresholdDb}

\* the settings of (fail_on_any_gate, require_majority): unanimous alone,
\* both flags set, majority alone, neither
Aggregations == {"all", "all_majority", "majority", "any"}

\* a QualityGateConfig with that PSNR threshold and aggregation mode
ConfigWith(t, agg) ==
    [DefaultConfig EXCEPT !.psnr_threshold = t,
                          !.fail_on_any_gate =
                              (agg \in {"all", "all_majority"}),
                          !.require_majority =
                              (agg \in {"majority", "all_majority"})]

GateInit ==
    /\ IdlePipeline
    /\ \E prof \in {"none"} \cup Modes,
          ps \in {NoMetric, 29, 30, 32, 34, 35, 36},
          ss \in {NoMetric, 80, 90},
          lp \in {NoMetric, 10, 20},
          t1 \in Thresholds, t2 \in Thresholds,
          agg \in Aggregations :
         /\ t1 <= t2
         /\ probe = [kind |-> "gate", prof |-> prof,
                     m |-> [psnr |-> ps, ssim |-> ss, lpips |-> lp],
                     t1 |-> t1, t2 |-> t2, agg |-> agg,
                     psnr_out |-> <<>>, adv_out |-> <<>>]

\* _apply_psnr_quality_gate on the candidate, and its pass test at t1, t2
PsnrGateRun ==
    /\ probe.kind = "gate"
    /\ probe.psnr_out = <<>>
    /\ LET q == [x \in {GateCandidate.method} |-> probe.m.psnr]
           g == ApplyPsnrQualityGate(<<GateCandidate>>, GateBest, probe.prof,
                                     100, q)
       IN  probe' = [probe EXCEPT !.psnr_out =
                       <<[passed |-> g.best # NoBest,
                          at1 |-> SelectedPassesPsnr(probe.m.psnr, probe.t1),
                          at2 |-> SelectedPassesPsnr(probe.m.psnr, probe.t2)]>>]
    /\ UNCHANGED pipeline_vars

\* _apply_advanced_quality_gates on the candidate with the default
\* configuration, and evaluate_quality at t1, t2 in the aggregation mode
AdvancedGateRun ==
    /\ probe.kind = "gate"
    /\ probe.adv_out = <<>>
    /\ LET q == [x \in {GateCandidate.method} |-> probe.m]
           g == ApplyAdvancedQualityGates(<<GateCandidate>>, GateBest,
                                          DefaultConfig, 100, q)
       IN  probe' = [probe EXCEPT !.adv_out =
                       <<[passed |-> g.best # NoBest,
                          at1 |-> EvaluateQuality(
                                    probe.m, ConfigWith(probe.t1, probe.agg)),
                          at2 |-> EvaluateQuality(
                                    probe.m, ConfigWith(probe.t2, probe.agg))]>>]
    /\ UNCHANGED pipeline_vars

GateNext == PsnrGateRun \/ AdvancedGateRun

GateSpec == GateInit /\ [][GateNext]_vars

----------------------------------------------------------------------------
(* _detect_content_profile on the rasterized sample.  A page image is      *)
(* taken by what the loop computes from it: whether read_rgb returns an    *)
(* array, whether its colorfulness is below 0.02, and whether its pixels   *)
(* lie near the extremes.                                                  *)

\* the return value None
NoProfile ==
    [mode |-> "none", color |-> 0, grayscale_like |-> 0, bitonal_like |-> 0,
     total |-> 0]

UnreadablePage == [readable |-> FALSE, gray_like |-> FALSE,
                   bitonal_like |-> FALSE]

PageKinds ==
    {UnreadablePage}
      \cup [readable : {TRUE}, gray_like : BOOLEAN, bitonal_like : BOOLEAN]

\* the files page-*.png left by Ghostscript, none when it wrote nothing
PageSamples == UNION {[1..n -> PageKinds] : n \in 0..MaxPages}

\* the pages of the sample that read_rgb returns an array for
ReadPages(pages) == {i \in 1..Len(pages) : pages[i].readable}

\* a profiler that tests the grayscale share before the bitonal share
DetectContentProfileGrayFirst(gs, numpy, pages) ==
    LET read == ReadPages(pages)
        total_imgs         == Cardinality(read)
        gray_like_count    == Cardinality({i \in read : pages[i].gray_like})
        color_count        == Cardinality({i \in read : ~pages[i].gray_like})
        bitonal_like_count ==
            Cardinality({i \in read : pages[i].bitonal_like})
    IN  IF ~gs \/ Len(pages) = 0 \/ ~numpy \/ total_imgs = 0 THEN NoProfile
        ELSE [mode |-> IF 2 * gray_like_count >= total_imgs THEN "grayscale"
                       ELSE IF 2 * bitonal_like_count >= total_imgs
                            THEN "bitonal"
                       ELSE "color",
              color |-> color_count, grayscale_like |-> gray_like_count,
              bitonal_like |-> bitonal_like_count, total |-> total_imgs]

\* _detect_content_profile: None without Ghostscript, without a page file,
\* without numpy or without a page that could be read; otherwise the mode
\* and the counts over the pages read
DetectContentProfile(gs, numpy, pages) ==
    LET read == ReadPages(pages)
        total_imgs         == Cardinality(read)
        gray_like_count    == Cardinality({i \in read : pages[i].gray_like})
        color_count        == Cardinality({i \in read : ~pages[i].gray_like})
        bitonal_like_count ==
            Cardinality({i \in read : pages[i].bitonal_like})
    IN  IF ~gs \/ Len(pages) = 0 \/ ~numpy \/ total_imgs = 0 THEN NoProfile
        ELSE [mode |-> IF 2 * bitonal_like_count >= total_imgs THEN "bitonal"
                       ELSE IF 2 * gray_like_count >= total_imgs
                            THEN "grayscale"
                       ELSE "color",
              color |-> color_count, grayscale_like |-> gray_like_count,
              bitonal_like |-> bitonal_like_count, total |-> total_imgs]

ProfileInit ==
    /\ IdlePipeline
    /\ \E gs \in BOOLEAN, numpy \in BOOLEAN, pages \in PageSamples :
         probe = [kind |-> "profile", gs |-> gs, numpy |-> numpy,
                  pages |-> pages, out |-> <<>>]

\* one call of _detect_content_profile
ProfileRun ==
    /\ probe.kind = "profile"
    /\ probe.out = <<>>
    /\ probe' = [probe EXCEPT !.out =
                   <<DetectContentProfile(probe.gs, probe.numpy,
                                          probe.pages)>>]
    /\ UNCHANGED pipeline_vars

ProfileSpec == ProfileInit /\ [][ProfileRun]_vars

----------------------------------------------------------------------------
(* process_all_pdfs on an input directory.  compress_pdf is taken by its   *)
(* two ways of returning: a result record with the optimized file written, *)
(* or the error record with nothing written.                               *)

Docs == 1..MaxDocs

NoDoc == 0

\* the kinds of record compress_pdf returns
CompressOutcomes == {"ok", "error"}

\* list(self.input_dir.glob("*.pdf")): the files in some order
GlobOrders(files) ==
    {q \in [1..Cardinality(files) -> files] :
        \A i, j \in 1..Cardinality(files) : q[i] = q[j] => i = j}

BatchInit ==
    /\ IdlePipeline
    /\ \E files \in SUBSET Docs : \E broken \in SUBSET files :
         probe = [kind |-> "batch",
                  started |-> files,   \* the input directory at the call
                  unstatable |-> broken, \* names stat() fails on
                  crashed |-> FALSE,   \* an exception left process_all_pdfs
                  input |-> files,     \* PDF files in the input directory
                  listed |-> FALSE,
                  pdfs |-> <<>>,       \* the part of pdfs not yet iterated
                  current |-> NoDoc,   \* compressed, not yet moved
                  outputs |-> {},      \* <stem>_optimized.pdf files
                  processed |-> {},    \* files in input/processed
                  results |-> <<>>]

\* pdfs = list(self.input_dir.glob("*.pdf"))
ListPdfs ==
    /\ probe.kind = "batch"
    /\ ~probe.listed
    /\ \E q \in GlobOrders(probe.input) :
         probe' = [probe EXCEPT !.listed = TRUE, !.pdfs = q]
    /\ UNCHANGED pipeline_vars

\* res = self.compress_pdf(pdf); results.append(res)
CompressNextPdf ==
    /\ probe.kind = "batch"
    /\ probe.listed
    /\ probe.current = NoDoc
    /\ probe.pdfs # <<>>
    /\ ~probe.crashed
    /\ Head(probe.pdfs) \notin probe.unstatable
    /\ \E kind \in CompressOutcomes :
         probe' = [probe EXCEPT
                     !.current = Head(probe.pdfs),
                     !.outputs = IF kind = "ok" THEN @ \cup {Head(probe.pdfs)}
                                 ELSE @,
                     !.results = Append(@, [file |-> Head(probe.pdfs),
                                            kind |-> kind])]
    /\ UNCHANGED pipeline_vars

\* pdf_path.stat() on the first line of compress_pdf, before its try,
\* fails (the name is a dangling link, or the file is gone since the glob):
\* the exception leaves compress_pdf and process_all_pdfs
CompressRaises ==
    /\ probe.kind = "batch"
    /\ probe.listed
    /\ probe.current = NoDoc
    /\ probe.pdfs # <<>>
    /\ ~probe.crashed
    /\ Head(probe.pdfs) \in probe.unstatable
    /\ probe' = [probe EXCEPT !.crashed = TRUE]
    /\ UNCHANGED pipeline_vars

\* self._move_processed_file(pdf), and the loop goes on
MoveProcessedFile ==
    /\ probe.kind = "batch"
    /\ probe.current # NoDoc
    /\ probe' = [probe EXCEPT
                   !.input = @ \ {probe.current},
                   !.processed = @ \cup {probe.current},
                   !.pdfs = Tail(@),
                   !.current = NoDoc]
    /\ UNCHANGED pipeline_vars

BatchNext ==
    ListPdfs \/ CompressNextPdf \/ CompressRaises \/ MoveProcessedFile

BatchSpec == BatchInit /\ [][BatchNext]_vars

\* process_all_pdfs has returned
BatchReturned ==
    /\ probe.kind = "batch"
    /\ probe.listed
    /\ probe.pdfs = <<>>
    /\ probe.current = NoDoc

----------------------------------------------------------------------------
(* Properties *)

Returned == pc = "done"
ReturnedResult == pc = "done" /\ result.kind = "ok"

\* the gate rejected the candidate the selection chose
SelectedRejected == Len(gate_log) >= 1 /\ ~gate_log[1].passed

\* some fallback was accepted by the gate
SomeAlternativePassed ==
    \E i \in 2..Len(gate_log) : gate_log[i].passed

SizeOf(cands, m) == cands[FirstIndex(cands, m)].size

\* C1: whenever compress_pdf returns a result, the file at the output path
\* is no larger than the original or is the original itself.
C1_OutputNeverLarger ==
    ReturnedResult =>
        (output.src = "original" \/ output.size <= original_size)

\* C2: when generation ends with no candidate at all, the original is
\* copied to the output path and the result says no_change, reduction 0 and
\* a final size equal to the original's.
C2_NoCandidatesPreserveOriginal ==
    (ReturnedResult /\ candidates = <<>>) =>
        /\ output = [src |-> "original", size |-> original_size]
        /\ result.winner_method = "no_change"
        /\ result.reduction_percent = 0
        /\ result.final_size = original_size

\* every attempted tool invocation failed, and compress_pdf returned
C2_Witness ==
    /\ ReturnedResult
    /\ candidates = <<>>
    /\ tools.gs /\ tools.qpdf
    /\ output.src = "original"

\* C3: when the gate rejects the selected candidate and accepts no
\* fallback, the original is copied to the output path and the result
\* reports no_change with zero reduction (either gate).
C3_RejectedMeansPreserved ==
    (ReturnedResult /\ SelectedRejected /\ ~SomeAlternativePassed) =>
        /\ output = [src |-> "original", size |-> original_size]
        /\ result.winner_method = "no_change"
        /\ result.reduction_percent = 0

\* the advanced gate rejected the selected candidate and both fallbacks
C3_Witness ==
    /\ ReturnedResult
    /\ opts.enable_advanced_gates
    /\ Len(gate_log) = 3
    /\ \A i \in 1..3 : ~gate_log[i].passed
    /\ output.src = "original"

\* the fallbacks among the candidates, high_quality before conservative
PresentFallbacks(cands) ==
    SelectSeq(<<"high_quality", "conservative">>,
              LAMBDA a : a \in Methods(cands))

\* C4: after the selected candidate is rejected, the gate evaluates the
\* fallbacks that exist in the order high_quality, conservative, stops at
\* the first one it accepts, and that one is the output: the result names
\* it and reports the reduction of its actual size (an original of 100, a
\* rejected candidate of 20 and an accepted high_quality of 96 give an
\* output of 96, method high_quality, reduction 4%).
C4_FirstPassingFallbackWins ==
    (ReturnedResult /\ SelectedRejected) =>
        LET alts == PresentFallbacks(candidates)
            n    == Len(gate_log) - 1
        IN  /\ n <= Len(alts)
            /\ \A i \in 1..n :
                 /\ gate_log[i + 1].method = alts[i]
                 /\ i < n => ~gate_log[i + 1].passed
            /\ (n > 0 /\ gate_log[n + 1].passed) =>
                 /\ output = [src |-> alts[n],
                              size |-> SizeOf(candidates, alts[n])]
                 /\ result.winner_method = alts[n]
                 /\ result.final_size = SizeOf(candidates, alts[n])
                 /\ result.reduction_percent =
                      100 * (original_size - result.final_size)
            /\ ~SomeAlternativePassed => n = Len(alts)
            /\ (/\ original_size = 100
                /\ selected.size = 20
                /\ n = 1
                /\ gate_log[2].passed
                /\ gate_log[2].method = "high_quality"
                /\ SizeOf(candidates, "high_quality") = 96) =>
                 /\ output.size = 96
                 /\ result.winner_method = "high_quality"
                 /\ result.reduction_percent = 4 * original_size

\* original 100, balanced 20 selected and rejected, high_quality 96 accepted
C4_Witness ==
    /\ ReturnedResult
    /\ original_size = 100
    /\ selected.method = "balanced" /\ selected.size = 20
    /\ "conservative" \in Methods(candidates)
    /\ Len(gate_log) = 2
    /\ gate_log[2].method = "high_quality" /\ gate_log[2].passed
    /\ output = [src |-> "high_quality", size |-> 96]

\* C5: the file finalized after the gate is the selected candidate, the
\* original, or a fallback that reduces the size no more than the selected
\* candidate did.
C5_GateOnlyMoreConservative ==
    (ReturnedResult /\ selected # NoBest) =>
        \/ output.src = "original"
        \/ output.size >= selected.size

\* C6: when compress_pdf returns, on any path, no temporary candidate file
\* of the run is left on disk.
C6_TemporariesDeleted == Returned => tmp_files = {}

\* C7: when compress_pdf returns, exactly one file has been copied to the
\* output path.
C7_ExactlyOneCopy == Returned => copies = 1

\* C8: a failing profile is only omitted: compress_pdf goes through every
\* remaining profile and returns a result that is not an error.
C8_ProfileFailureNotFatal ==
    Returned => (result.kind # "error" /\ step > Len(GenOrder))

\* C9: a candidate for which no metric could be measured is treated as
\* passing by the gate, whether it is the selected one or a fallback.
C9_UnmeasuredPasses ==
    \A i \in 1..Len(gate_log) :
        ~gate_log[i].measured => gate_log[i].passed

MaxScore(sc) == CHOOSE x \in {sc[i] : i \in 1..Len(sc)} :
                   \A i \in 1..Len(sc) : sc[i] <= x

\* C10: once selection has run, it returned None exactly when the candidate
\* list is empty, and otherwise a candidate whose score is the maximum of
\* all candidates' scores.
C10_SelectsMaximumOrNoneIfEmpty ==
    (pc \in {"gate", "done"} /\ Len(scores) = Len(candidates)) =>
        /\ (selected = NoBest) <=> (candidates = <<>>)
        /\ selected # NoBest => selected.score = MaxScore(scores)

C12_ThresholdMonotone ==
    probe.kind = "gate" =>
        /\ \A i \in 1..Len(probe.psnr_out) :
             probe.psnr_out[i].at2 => probe.psnr_out[i].at1
        /\ \A i \in 1..Len(probe.adv_out) :
             probe.adv_out[i].at2 => probe.adv_out[i].at1

\* a measured candidate passes both gates at the lower threshold and fails
\* both at the higher one
C12_Witness ==
    /\ probe.kind = "gate"
    /\ probe.t1 < probe.t2
    /\ probe.m.psnr # NoMetric
    /\ Len(probe.psnr_out) = 1 /\ Len(probe.adv_out) = 1
    /\ probe.psnr_out[1].at1 /\ ~probe.psnr_out[1].at2
    /\ probe.adv_out[1].at1 /\ ~probe.adv_out[1].at2

\* C13: the PSNR-only gate passes a measured candidate exactly when its PSNR
\* is at least 35 dB (profile unset or color), 33 dB (grayscale) or 30 dB
\* (bitonal); a PSNR in [30, 35) passes for bitonal and fails for unset and
\* color.
C13_ContentAwareThreshold ==
    (probe.kind = "gate" /\ probe.psnr_out # <<>>
       /\ probe.m.psnr # NoMetric) =>
        /\ probe.psnr_out[1].passed <=>
             (probe.m.psnr >= (IF probe.prof = "bitonal" THEN 30
                               ELSE IF probe.prof = "grayscale" THEN 33
                               ELSE 35))
        /\ (probe.m.psnr >= 30 /\ probe.m.psnr < 35) =>
             /\ probe.prof = "bitonal" => probe.psnr_out[1].passed
             /\ probe.prof \in {"none", "color"} =>
                  ~probe.psnr_out[1].passed

\* a bitonal document whose candidate measures 32 dB passed the gate
C13_Witness ==
    /\ probe.kind = "gate"
    /\ probe.prof = "bitonal"
    /\ probe.m.psnr = 32
    /\ probe.psnr_out # <<>>
    /\ probe.psnr_out[1].passed

\* C14: with only PSNR measured, the advanced gate gives the candidate the
\* verdict of the PSNR-only gate: the PSNR is compared with the same
\* content-dependent threshold whichever gate is active.
C14_SameThresholdInBothGates ==
    (probe.kind = "gate" /\ probe.psnr_out # <<>> /\ probe.adv_out # <<>>
       /\ probe.m.psnr # NoMetric /\ probe.m.ssim = NoMetric) =>
        (probe.adv_out[1].passed <=> probe.psnr_out[1].passed)

\* C15: while the content profile is unset, no candidate comes from a
\* profile whose block depends on the content mode (color_text_safe,
\* bitonal_ccitt, the OCR/MRC profile), anti-noise is on only by its flag,
\* and compress_pdf does not end in an error because of it.
C15_UnknownModeSkipsModeBranches ==
    content_profile = "none" =>
        /\ Methods(candidates)
             \cap {"color_text_safe", "bitonal_ccitt", "mrc_ocr"} = {}
        /\ use_anti_noise = opts.enable_anti_noise

\* C16: the record returned and the file written are those the engine
\* computes without looking at telemetry, and the record returned is the
\* same under every behaviour of the telemetry collaborator (disabled,
\* absent, enabled, raising in either call).
C16_TelemetryDoesNotInfluence ==
    Returned =>
        LET expected ==
              IF copies = 0 THEN ErrorResult
              ELSE IF best # NoBest THEN SuccessResult(best, original_size)
              ELSE NoChangeResult(original_size)
        IN  /\ result = expected
            /\ \A m \in TelemetryModes :
                 ReturnAfterTelemetry([telemetry EXCEPT !.mode = m],
                                      expected) = result
            /\ copies = 1 => output = CopiedFile(best, original_size)
            /\ copies = 0 => output = NoOutput

\* telemetry was active, record_compression_result raised, and compress_pdf
\* returned a compressed candidate
C16_Witness ==
    /\ ReturnedResult
    /\ telemetry.mode = "record_raises"
    /\ telemetry.doc_id = "doc"
    /\ telemetry.records = <<>>
    /\ result.winner_method \notin {"no_change", "none"}

\* C17: compress_pdf eventually returns, whatever the external tools do.
C17_EventuallyReturns == <>(pc = "done")

\* C18: when process_all_pdfs has returned, every PDF that was in the input
\* directory has its optimized file in the output directory, has been moved
\* to input/processed and is no longer in the input directory, and has
\* exactly one result in the returned list; a file is moved only once its
\* result is in the list.
C18_BatchPostcondition ==
    probe.kind = "batch" =>
        /\ probe.processed \subseteq
             {probe.results[i].file : i \in 1..Len(probe.results)}
        /\ BatchReturned =>
             /\ Len(probe.results) = Cardinality(probe.started)
             /\ \A d \in probe.started :
                  /\ d \in probe.outputs
                  /\ d \in probe.processed
                  /\ d \notin probe.input
                  /\ \E i \in 1..Len(probe.results) :
                       probe.results[i].file = d

\* C19: with no sharpness measurement, when some high_quality or balanced
\* candidate reduces the size by 5% to 80%, the selected candidate is not
\* one that reduces it by more than 80%; for an original of 100 with
\* conservative 95, high_quality 60, balanced 40 and aggressive_safe 15 the
\* winner is high_quality or balanced.
C19_OverAggressiveNeverWins ==
    (probe.kind = "select" /\ probe.runs # <<>>
       /\ (probe.base = NoSharp \/ probe.cand = NoSharp)) =>
        LET sel == probe.runs[1].selected
            o   == probe.orig
        IN  /\ (\E i \in 1..Len(probe.cands) :
                   /\ probe.cands[i].method \in {"high_quality", "balanced"}
                   /\ 100 * (o - probe.cands[i].size) >= 5 * o
                   /\ 100 * (o - probe.cands[i].size) <= 80 * o) =>
                 /\ sel # NoBest
                 /\ 100 * (o - sel.size) <= 80 * o
            /\ probe.cands = <<[method |-> "conservative", size |-> 95],
                               [method |-> "high_quality", size |-> 60],
                               [method |-> "balanced", size |-> 40],
                               [method |-> "aggressive_safe", size |-> 15]>> =>
                 sel.method \in {"high_quality", "balanced"}

\* the four candidates of the example were scored without sharpness and
\* high_quality won
C19_Witness ==
    /\ probe.kind = "select"
    /\ probe.runs # <<>>
    /\ probe.base = NoSharp
    /\ probe.orig = 100
    /\ probe.cands = <<[method |-> "conservative", size |-> 95],
                       [method |-> "high_quality", size |-> 60],
                       [method |-> "balanced", size |-> 40],
                       [method |-> "aggressive_safe", size |-> 15]>>
    /\ probe.runs[1].selected.method = "high_quality"

\* C20: a candidate with reduction r >= 0 and no sharpness, content-mode or
\* advanced-raster adjustment scores base(r) + prior: base is 70 + r below
\* 5, 80 + (r-5)/45*20 up to 50, 95 - (r-50)/30*15 up to 80 and 60 - (r-80)
\* above; prior is 10 for conservative, 8 for high_quality, 5 for balanced
\* and 0 otherwise.  (Scores are carried times 18 * orig, r times orig.)
C20_ScoreIsCurvePlusPrior ==
    (probe.kind = "select" /\ probe.runs # <<>>
       /\ (probe.base = NoSharp \/ probe.cand = NoSharp)
       /\ ~probe.op.enable_advanced_raster) =>
        \A i \in 1..Len(probe.cands) :
          LET o  == probe.orig
              m  == probe.cands[i].method
              r  == 100 * (o - probe.cands[i].size)
              u  == 18 * o
              bs == IF r < 5 * o THEN 70 * u + 18 * r
                    ELSE IF r <= 50 * o THEN 80 * u + 8 * (r - 5 * o)
                    ELSE IF r <= 80 * o THEN 95 * u - 9 * (r - 50 * o)
                    ELSE 60 * u - 18 * (r - 80 * o)
              pr == IF m = "conservative" THEN 10 * u
                    ELSE IF m = "high_quality" THEN 8 * u
                    ELSE IF m = "balanced" THEN 5 * u
                    ELSE 0
          IN  (r >= 0 /\ ~(probe.prof \in {"grayscale", "bitonal"}
                            /\ m = "conservative")) =>
                probe.runs[1].scores[i] = bs + pr

\* candidates on all four segments of the curve were scored with no
\* adjustment
C20_Witness ==
    /\ probe.kind = "select"
    /\ probe.runs # <<>>
    /\ probe.base = NoSharp
    /\ probe.prof = "none"
    /\ probe.cands = <<[method |-> "conservative", size |-> 96],
                       [method |-> "high_quality", size |-> 60],
                       [method |-> "balanced", size |-> 40],
                       [method |-> "aggressive_safe", size |-> 15]>>
    /\ probe.runs[1].scores[2] > probe.runs[1].scores[3]

\* C21: a candidate larger than the original ends the scoring with a score
\* of exactly 0, whatever its prior, sharpness and bonuses.
C21_NegativeReductionScoresZero ==
    (probe.kind = "select" /\ probe.runs # <<>>) =>
        \A i \in 1..Len(probe.cands) :
            probe.cands[i].size > probe.orig =>
                probe.runs[1].scores[i] = 0

\* C22: the candidates are listed in generation order (conservative,
\* high_quality, balanced, text_preserve, grayscale_pref, denoise_raster,
\* color_text_safe or bitonal_ccitt, mrc_ocr, advanced_raster,
\* mrc_light_raster, aggressive_safe) and the selected candidate is the first
\* of the list that has the maximum score: every earlier one scores
\* strictly less.
C22_FirstOfEqualScoresWins ==
    LET rank == [m \in Strategies |->
                   CASE m = "conservative" -> 1
                     [] m = "high_quality" -> 2
                     [] m = "balanced" -> 3
                     [] m = "text_preserve" -> 4
                     [] m = "grayscale_pref" -> 5
                     [] m = "denoise_raster" -> 6
                     [] m = "color_text_safe" -> 7
                     [] m = "bitonal_ccitt" -> 7
                     [] m = "mrc_ocr" -> 8
                     [] m = "advanced_raster" -> 9
                     [] m = "mrc_light_raster" -> 10
                     [] OTHER -> 11]
    IN  /\ \A i, j \in 1..Len(candidates) :
             i < j => rank[candidates[i].method] < rank[candidates[j].method]
        /\ (Len(scores) = Len(candidates) /\ selected # NoBest) =>
             \E k \in 1..Len(candidates) :
                /\ candidates[k].method = selected.method
                /\ scores[k] = selected.score
                /\ \A j \in 1..Len(scores) : scores[j] <= scores[k]
                /\ \A j \in 1..(k - 1) : scores[j] < scores[k]

\* two candidates share the maximum score and the earlier one was selected
C22_Witness ==
    /\ Len(scores) = Len(candidates)
    /\ selected # NoBest
    /\ \E i, j \in 1..Len(candidates) :
         /\ i < j
         /\ scores[i] = scores[j]
         /\ scores[i] = selected.score
         /\ candidates[i].method = selected.method

\* C24: once candidate generation is over, a profile has been attempted
\* exactly when its condition on the tools, the content mode and the flags
\* holds.
C24_AttemptedProfiles ==
    pc \in {"select", "gate", "blocked", "done"} =>
        LET anti == opts.enable_anti_noise
                      \/ content_profile \in {"grayscale", "bitonal"}
        IN  /\ "conservative" \in attempted <=> tools.qpdf
            /\ \A m \in {"high_quality", "balanced", "aggressive_safe"} :
                 m \in attempted <=> tools.gs
            /\ \A m \in {"text_preserve", "grayscale_pref",
                          "denoise_raster"} :
                 m \in attempted <=> (tools.gs /\ anti)
            /\ "color_text_safe" \in attempted <=>
                 (tools.gs /\ content_profile = "color")
            /\ "mrc_ocr" \in attempted <=>
                 (tools.ocrmypdf /\ content_profile # "color")
            /\ \A m \in RasterPipelines :
                 m \in attempted <=> opts.enable_advanced_raster

\* C23: over the gates that produced a value, the advanced gate passes in
\* unanimous mode iff all of them pass, otherwise in majority mode iff
\* strictly more than half pass, otherwise iff at least one passes;
\* unanimous wins over majority, and no evaluated gate is a pass.
C23_AggregationModes ==
    (probe.kind = "gate" /\ probe.adv_out # <<>>) =>
        LET evaluated == {g \in {"psnr", "ssim", "lpips"} :
                            probe.m[g] # NoMetric}
            passing(t) == {g \in evaluated :
                             \/ g = "psnr" /\ probe.m.psnr >= t
                             \/ g = "ssim" /\ probe.m.ssim >= ConfigSsimThreshold
                             \/ g = "lpips" /\ probe.m.lpips <= 15}
            expected(t) ==
                IF evaluated = {} THEN TRUE
                ELSE IF probe.agg \in {"all", "all_majority"}
                     THEN passing(t) = evaluated
                ELSE IF probe.agg = "majority"
                     THEN 2 * Cardinality(passing(t)) > Cardinality(evaluated)
                ELSE passing(t) # {}
        IN  /\ probe.adv_out[1].at1 = expected(probe.t1)
            /\ probe.adv_out[1].at2 = expected(probe.t2)

\* majority mode, two gates evaluated, one of them passes: a fail
C23_Witness ==
    /\ probe.kind = "gate"
    /\ probe.adv_out # <<>>
    /\ probe.agg = "majority"
    /\ probe.m.psnr # NoMetric /\ probe.m.psnr < probe.t1
    /\ probe.m.ssim # NoMetric /\ probe.m.ssim >= ConfigSsimThreshold
    /\ probe.m.lpips = NoMetric
    /\ ~probe.adv_out[1].at1

\* C25: the profiler classifies over the pages it could read: Bitonal when
\* at least half of them are bitonal-like, otherwise Grayscale when at least
\* half are grayscale-like, otherwise Color; unreadable pages do not count;
\* the result is None exactly when no page was read; a result that is not
\* None has color count + grayscale-like count = total.
C25_ProfileOverReadPages ==
    (probe.kind = "profile" /\ probe.out # <<>>) =>
        LET out  == probe.out[1]
            read == IF probe.gs /\ probe.numpy
                    THEN {i \in 1..Len(probe.pages) : probe.pages[i].readable}
                    ELSE {}
            bitonal == {i \in read : probe.pages[i].bitonal_like}
            gray    == {i \in read : probe.pages[i].gray_like}
        IN  /\ out = NoProfile <=> read = {}
            /\ out # NoProfile =>
                 /\ out.mode \in Modes
                 /\ out.total = Cardinality(read)
                 /\ out.color + out.grayscale_like = out.total
                 /\ out.mode = "bitonal" <=>
                      2 * Cardinality(bitonal) >= Cardinality(read)
                 /\ out.mode = "grayscale" <=>
                      /\ 2 * Cardinality(bitonal) < Cardinality(read)
                      /\ 2 * Cardinality(gray) >= Cardinality(read)

\* an unreadable page was skipped, half of the pages read are bitonal-like,
\* all of them are grayscale-like, and the mode is Bitonal
C25_Witness ==
    /\ probe.kind = "profile"
    /\ probe.out # <<>>
    /\ \E i \in 1..Len(probe.pages) : ~probe.pages[i].readable
    /\ probe.out[1].total = 2
    /\ probe.out[1].bitonal_like = 1
    /\ probe.out[1].grayscale_like = 2
    /\ probe.out[1].mode = "bitonal"

\* C26: within one selection pass every candidate's reduction and score
\* are computed against the original size read before the loop, also when
\* the file on disk has another size by the time a candidate is scored.
C26_OneOriginalSizeSnapshot ==
    (probe.kind = "select" /\ probe.runs # <<>>) =>
        \A n \in 1..Len(probe.runs) :
            /\ \A i \in 1..Len(probe.cands) :
                 probe.runs[n].scores[i] =
                     Score(probe.cands[i].method, probe.cands[i].size,
                           probe.orig, probe.base, probe.cand, probe.prof,
                           probe.op)
            /\ probe.runs[n].selected # NoBest =>
                 probe.runs[n].selected.reduction =
                     Reduction(probe.orig, probe.runs[n].selected.size)

\* a pass over two or more candidates during which the original's size on
\* disk differs from the size read before the loop
C26_Witness ==
    /\ probe.kind = "select"
    /\ probe.runs # <<>>
    /\ Len(probe.cands) >= 2
    /\ probe.disk # probe.orig

\* C27: the +6 content-mode bonus goes only to the anti-noise strategies
\* (text_preserve, grayscale_pref, denoise_raster) of a Grayscale or
\* Bitonal document: every other candidate scores what it scores with the
\* profile unset.
C27_BonusOnlyForAntiNoise ==
    (probe.kind = "select" /\ probe.runs # <<>>) =>
        \A i \in 1..Len(probe.cands) :
            (\/ probe.cands[i].method \notin
                   {"text_preserve", "grayscale_pref", "denoise_raster"}
             \/ probe.prof \notin {"grayscale", "bitonal"}) =>
                probe.runs[1].scores[i] =
                    Score(probe.cands[i].method, probe.cands[i].size,
                          probe.orig, probe.base, probe.cand, "none",
                          probe.op)

\* C28: on the PSNR-only path the file copied to the output is a candidate
\* measured at or above the threshold of the content mode, or the selected
\* candidate when its PSNR could not be measured, or the original: never a
\* candidate measured below the threshold.
C28_PsnrGateNeverCopiesBelowThreshold ==
    (ReturnedResult /\ ~opts.enable_advanced_gates) =>
        LET threshold == IF content_profile = "bitonal"
                         THEN BitonalThresholdDb
                         ELSE IF content_profile = "grayscale"
                              THEN GrayscaleThresholdDb
                              ELSE DefaultThresholdDb
        IN  \/ output.src = "original"
            \/ /\ result.psnr_db # NoMetric
               /\ result.psnr_db >= threshold
               /\ output.src = result.winner_method
            \/ /\ result.psnr_db = NoMetric
               /\ selected # NoBest
               /\ output.src = selected.method

\* the selected candidate is high_quality, measured below the threshold; it
\* is measured again as the first fallback and rejected again
C28_Witness ==
    /\ ReturnedResult
    /\ ~opts.enable_advanced_gates
    /\ selected # NoBest
    /\ selected.method = "high_quality"
    /\ Len(gate_log) >= 2
    /\ gate_log[1].method = "high_quality" /\ ~gate_log[1].passed
    /\ gate_log[2].method = "high_quality" /\ ~gate_log[2].passed
    /\ output.src # "high_quality"

\* C29: in every result that is not the error result, winner_method is
\* "no_change" exactly when the original was copied to the output path, and
\* otherwise it names the candidate whose file was copied, with that
\* candidate's size as final size.
C29_WinnerMethodNamesCopiedFile ==
    ReturnedResult =>
        /\ result.winner_method = "no_change" <=> output.src = "original"
        /\ output.src # "original" =>
             /\ output.src = result.winner_method
             /\ output.src \in Methods(candidates)
             /\ output.size = SizeOf(candidates, output.src)
             /\ result.final_size = output.size

\* the gate rejected the selected candidate and a fallback was copied:
\* the result names the fallback
C29_Witness ==
    /\ ReturnedResult
    /\ SelectedRejected
    /\ SomeAlternativePassed
    /\ selected # NoBest
    /\ output.src # selected.method
    /\ output.src # "original"
    /\ result.winner_method = output.src

\* C30: an error on one document stays with that document: no exception
\* leaves compress_pdf, and when process_all_pdfs has returned the list has
\* one record for every PDF that was found.
C30_ErrorIsolatedToDocument ==
    probe.kind = "batch" =>
        /\ ~probe.crashed
        /\ BatchReturned =>
             \A d \in probe.started :
                 Cardinality({i \in 1..Len(probe.results) :
                                probe.results[i].file = d}) = 1

====
